---- MODULE Spec2Model ----
(***************************************************************************)
(* papers.py: the immigration office of Kanadia.                           *)
(*                                                                         *)
(* decide(input_file, watchlist_file, countries_file) reads three JSON     *)
(* sources, lowercases them, rebuilds the module-level tables COUNTRIES,   *)
(* WATCH_PASSPORTS and WATCH_NAMES and labels every record with the first  *)
(* of Quarantine, Reject, Secondary whose predicate is truthy, or Accept.  *)
(*                                                                         *)
(* A Python string is a sequence of one-character strings.  A JSON value   *)
(* is a tagged record: a string, a dict (its items in insertion order) or  *)
(* anything else (number, boolean, null, list).  A call either returns a   *)
(* value or raises; a raised exception is the tagged record Err(kind).     *)
(***************************************************************************)
EXTENDS Integers, Sequences, FiniteSets, TLC

VARIABLES
    input_file,       \* the records source, as the names of the records in it
    watchlist_file,   \* the path the caller passes for the watchlist
    countries_file,   \* the path the caller passes for the country table
    now,              \* the wall clock: an index into Clock
    COUNTRIES,        \* module global, papers.py:34
    WATCH_PASSPORTS,  \* module global, papers.py:41
    WATCH_NAMES,      \* module global, papers.py:42
    result,           \* what the latest decide call returned or raised
    called_at,        \* the clock reading of the latest decide call
    calls             \* how many decide calls the process has made

vars == <<input_file, watchlist_file, countries_file, now,
          COUNTRIES, WATCH_PASSPORTS, WATCH_NAMES, result, called_at, calls>>

-----------------------------------------------------------------------------
(* Python values                                                           *)

Str(s) == [t |-> "str", s |-> s]
Dict(items) == [t |-> "dict", items |-> items]
JBool(b) == [t |-> "jbool", b |-> b]
Other == [t |-> "other"]
None == [t |-> "none"]
Err(e) == [t |-> "err", e |-> e]
Bool(b) == [t |-> "bool", b |-> b]
IntVal(n) == [t |-> "int", n |-> n]
SetOf(elems) == [t |-> "set", elems |-> elems]
List(labels) == [t |-> "list", labels |-> labels]
Array(elems) == [t |-> "array", elems |-> elems]
LabelOf(l) == [t |-> "label", l |-> l]
Missing == [t |-> "missing"]

IsErr(v) == v.t = "err"

\* bool(v) for the values a lowercased record can hold
Truthy(v) ==
    CASE v.t = "str" -> v.s # <<>>
      [] v.t = "dict" -> v.items # <<>>
      [] v.t = "bool" -> v.b
      [] v.t = "int" -> v.n # 0
      [] OTHER -> FALSE

\* dict membership, d[k], d.get(k, default) and d[k] = v on the item list
HasKey(items, k) == \E i \in DOMAIN items : items[i][1] = k
Lookup(items, k) == items[CHOOSE i \in DOMAIN items : items[i][1] = k][2]
Get(items, k, default) == IF HasKey(items, k) THEN Lookup(items, k) ELSE default
Put(items, k, v) ==
    IF HasKey(items, k)
    THEN [i \in DOMAIN items |-> IF items[i][1] = k THEN <<k, v>> ELSE items[i]]
    ELSE Append(items, <<k, v>>)

-----------------------------------------------------------------------------
(* Characters and str.lower()                                              *)

UpperLetters == <<"A","B","C","D","E","F","G","H","I","J","K","L","M",
                  "N","O","P","Q","R","S","T","U","V","W","X","Y","Z">>
LowerLetters == <<"a","b","c","d","e","f","g","h","i","j","k","l","m",
                  "n","o","p","q","r","s","t","u","v","w","x","y","z">>
Digits == <<"0","1","2","3","4","5","6","7","8","9">>

Range(seq) == {seq[i] : i \in DOMAIN seq}

UpperSet == Range(UpperLetters)
DigitSet == Range(Digits)
WordChars == UpperSet \cup Range(LowerLetters) \cup DigitSet \cup {"_"}
LowerOf ==
    [c \in UpperSet |->
        LowerLetters[CHOOSE i \in DOMAIN UpperLetters : UpperLetters[i] = c]]
ValueOf == [c \in DigitSet |-> (CHOOSE i \in DOMAIN Digits : Digits[i] = c) - 1]

LowerChar(c) == IF c \in UpperSet THEN LowerOf[c] ELSE c

lower(s) == [i \in DOMAIN s |-> LowerChar(s[i])]

\* the regular expression class \w
IsWordChar(c) == c \in WordChars

IsDigit(c) == c \in DigitSet
DigitVal(c) == ValueOf[c]

-----------------------------------------------------------------------------
(* convert_to_lower, papers.py:90-107                                      *)

RECURSIVE LowerItems(_, _)
LowerItems(items, new_d) ==
    IF items = <<>> THEN new_d
    ELSE LET k == Head(items)[1]
             v == Head(items)[2]
         IN  LowerItems(Tail(items),
                 CASE v.t = "str" -> Put(new_d, lower(k), Str(lower(v.s)))
                   [] v.t = "dict" ->
                        Put(new_d, lower(k), Dict(LowerItems(v.items, <<>>)))
                   [] OTHER -> new_d)

convert_to_lower(d) == Dict(LowerItems(d.items, <<>>))

-----------------------------------------------------------------------------
(* String constants of the program                                         *)

K_passport == <<"p","a","s","s","p","o","r","t">>
K_first_name == <<"f","i","r","s","t","_","n","a","m","e">>
K_last_name == <<"l","a","s","t","_","n","a","m","e">>
K_birth_date == <<"b","i","r","t","h","_","d","a","t","e">>
K_home == <<"h","o","m","e">>
K_entry_reason == <<"e","n","t","r","y","_","r","e","a","s","o","n">>
K_from == <<"f","r","o","m">>
K_via == <<"v","i","a">>
K_visa == <<"v","i","s","a">>
K_country == <<"c","o","u","n","t","r","y">>
K_code == <<"c","o","d","e">>
K_date == <<"d","a","t","e">>
K_medical_advisory ==
    <<"m","e","d","i","c","a","l","_","a","d","v","i","s","o","r","y">>
K_visitor_visa_required ==
    <<"v","i","s","i","t","o","r","_","v","i","s","a","_",
      "r","e","q","u","i","r","e","d">>
K_transit_visa_required ==
    <<"t","r","a","n","s","i","t","_","v","i","s","a","_",
      "r","e","q","u","i","r","e","d">>
S_kan == <<"k","a","n">>
S_visit == <<"v","i","s","i","t">>
S_transit == <<"t","r","a","n","s","i","t">>

REQUIRED_FIELDS == <<K_passport, K_first_name, K_last_name,
                     K_birth_date, K_home, K_entry_reason, K_from>>

-----------------------------------------------------------------------------
(* Format validators, papers.py:242-275                                    *)

\* re.match of ^\w{5}(-\w{5}){groups-1}$ ; $ also matches before one final
\* newline
MatchesGroups(s, groups) ==
    LET n == 6 * groups - 1
        body == IF Len(s) = n + 1 /\ s[Len(s)] = "\n" THEN SubSeq(s, 1, n) ELSE s
    IN  /\ Len(body) = n
        /\ \A i \in 1..n : IF i % 6 = 0 THEN body[i] = "-" ELSE IsWordChar(body[i])

valid_visa_format(visa_code) ==
    IF visa_code.t # "str" THEN Err("TypeError")
    ELSE Bool(MatchesGroups(visa_code.s, 2))

valid_passport_format(passport_number) ==
    IF passport_number.t # "str" THEN Err("TypeError")
    ELSE Bool(MatchesGroups(passport_number.s, 5))

IsLeap(y) == (y % 4 = 0 /\ y % 100 # 0) \/ y % 400 = 0

DaysInMonth(y, m) ==
    CASE m \in {4, 6, 9, 11} -> 30
      [] m = 2 -> IF IsLeap(y) THEN 29 ELSE 28
      [] OTHER -> 31

RECURSIVE DigitsVal(_)
DigitsVal(s) ==
    IF s = <<>> THEN 0
    ELSE 10 * DigitsVal(SubSeq(s, 1, Len(s) - 1)) + DigitVal(s[Len(s)])

AllDigits(s) == \A i \in DOMAIN s : IsDigit(s[i])

\* datetime.datetime.strptime(s, '%Y-%m-%d'): %Y is four digits, %m is
\* 1[0-2]|0[1-9]|[1-9], %d is 3[01]|[12]\d|0[1-9]|[1-9]| [1-9]; the whole string
\* must be consumed and the day must exist in the month
strptime(s) ==
    LET dashes == {i \in DOMAIN s : s[i] = "-"}
    IN  IF Cardinality(dashes) # 2 THEN Err("ValueError")
        ELSE LET p1 == CHOOSE i \in dashes : \A j \in dashes : i <= j
                 p2 == CHOOSE i \in dashes : \A j \in dashes : j <= i
                 Y == SubSeq(s, 1, p1 - 1)
                 M == SubSeq(s, p1 + 1, p2 - 1)
                 D == SubSeq(s, p2 + 1, Len(s))
                 okY == Len(Y) = 4 /\ AllDigits(Y)
                 okM == /\ Len(M) \in {1, 2}
                        /\ AllDigits(M)
                        /\ DigitsVal(M) \in 1..12
                 okD == \/ /\ Len(D) \in {1, 2}
                           /\ AllDigits(D)
                           /\ DigitsVal(D) \in 1..31
                        \/ /\ Len(D) = 2
                           /\ D[1] = " "
                           /\ IsDigit(D[2])
                           /\ D[2] # "0"
                 dayOf == IF D[1] = " " THEN DigitVal(D[2]) ELSE DigitsVal(D)
             IN  IF ~(okY /\ okM /\ okD) THEN Err("ValueError")
                 ELSE IF DigitsVal(Y) < 1 THEN Err("ValueError")
                 ELSE IF dayOf > DaysInMonth(DigitsVal(Y), DigitsVal(M))
                      THEN Err("ValueError")
                 ELSE [t |-> "datetime", y |-> DigitsVal(Y), m |-> DigitsVal(M),
                       d |-> dayOf, s |-> 0]

valid_date_format(date_string) ==
    IF date_string.t # "str" THEN Err("TypeError")
    ELSE Bool(~IsErr(strptime(date_string.s)))

\* datetime.replace(year=...)
ReplaceYear(dt, year) ==
    IF dt.d > DaysInMonth(year, dt.m) THEN Err("ValueError")
    ELSE [dt EXCEPT !.y = year]

\* (a - b).total_seconds() >= 0
NotBefore(a, b) ==
    \/ a.y > b.y
    \/ a.y = b.y /\ a.m > b.m
    \/ a.y = b.y /\ a.m = b.m /\ a.d > b.d
    \/ a.y = b.y /\ a.m = b.m /\ a.d = b.d /\ a.s >= b.s

\* int(v) of a table value
PyInt(v) ==
    IF v.t # "str" THEN Err("TypeError")
    ELSE IF v.s # <<>> /\ AllDigits(v.s) THEN IntVal(DigitsVal(v.s))
    ELSE Err("ValueError")

-----------------------------------------------------------------------------
(* Rule predicates, papers.py:136-239.  G holds the module globals the     *)
(* predicate reads: G.COUNTRIES, G.WATCH_PASSPORTS, G.WATCH_NAMES.         *)

\* COUNTRIES.get(c, {}).get("medical_advisory", "")
Advisory(c, G) ==
    IF G.COUNTRIES.t # "dict" THEN Err("AttributeError")
    ELSE IF c.t # "str" THEN Err("TypeError")
    ELSE LET entry == Get(G.COUNTRIES.items, c.s, Dict(<<>>))
         IN  IF entry.t # "dict" THEN Err("AttributeError")
             ELSE Get(entry.items, K_medical_advisory, Str(<<>>))

is_quarantine(record, G) ==
    LET from_obj == Get(record.items, K_from, Dict(<<>>))
        via_obj == Get(record.items, K_via, Dict(<<>>))
    IN  IF from_obj.t # "dict" THEN Err("AttributeError")
        ELSE IF via_obj.t # "dict" THEN Err("AttributeError")
        ELSE LET from_ == Get(from_obj.items, K_country, Str(<<>>))
                 via == Get(via_obj.items, K_country, Str(<<>>))
                 a1 == Advisory(from_, G)
                 a2 == Advisory(via, G)
             IN  IF IsErr(a1) THEN a1
                 ELSE IF IsErr(a2) THEN a2
                 ELSE Bool(Truthy(a1) \/ Truthy(a2))

\* int(COUNTRIES[home][flag])
VisaFlag(home, flag, G) ==
    IF G.COUNTRIES.t # "dict" \/ home.t # "str" THEN Err("TypeError")
    ELSE IF ~HasKey(G.COUNTRIES.items, home.s) THEN Err("KeyError")
    ELSE LET entry == Lookup(G.COUNTRIES.items, home.s)
         IN  IF entry.t # "dict" THEN Err("TypeError")
             ELSE IF ~HasKey(entry.items, flag) THEN Err("KeyError")
             ELSE PyInt(Lookup(entry.items, flag))

requires_visa(record, G) ==
    IF ~HasKey(record.items, K_home) THEN Err("KeyError")
    ELSE LET home_obj == Lookup(record.items, K_home)
         IN  IF home_obj.t # "dict" THEN Err("TypeError")
             ELSE IF ~HasKey(home_obj.items, K_country) THEN Err("KeyError")
             ELSE IF ~HasKey(record.items, K_entry_reason) THEN Err("KeyError")
             ELSE LET home == Lookup(home_obj.items, K_country)
                      reason == Lookup(record.items, K_entry_reason)
                      visitor_visa_required ==
                          VisaFlag(home, K_visitor_visa_required, G)
                      transit_visa_required ==
                          VisaFlag(home, K_transit_visa_required, G)
                  IN  IF home = Str(S_kan) THEN Bool(FALSE)
                      ELSE IF IsErr(visitor_visa_required)
                           THEN visitor_visa_required
                      ELSE IF IsErr(transit_visa_required)
                           THEN transit_visa_required
                      ELSE IF reason = Str(S_visit) /\ Truthy(visitor_visa_required)
                           THEN Bool(TRUE)
                      ELSE IF reason = Str(S_transit)
                              /\ Truthy(transit_visa_required)
                           THEN Bool(TRUE)
                      ELSE Bool(FALSE)

is_valid_visa(record, clock) ==
    LET visa == Get(record.items, K_visa, Dict(<<>>))
    IN  IF visa.t # "dict" THEN Err("AttributeError")
        ELSE LET visa_code == Get(visa.items, K_code, Str(<<>>))
                 visa_date == Get(visa.items, K_date, Str(<<>>))
                 fmt == valid_visa_format(visa_code)
                 dfmt == valid_date_format(visa_date)
                 two_years_ago == ReplaceYear(clock, clock.y - 2)
             IN  IF IsErr(fmt) THEN fmt
                 ELSE IF ~Truthy(fmt) THEN Bool(FALSE)
                 ELSE IF IsErr(dfmt) THEN dfmt
                 ELSE IF ~Truthy(dfmt) THEN Bool(FALSE)
                 ELSE IF IsErr(two_years_ago) THEN two_years_ago
                 ELSE Bool(NotBefore(strptime(visa_date.s), two_years_ago))

\* all([record.get(field, "") for field in REQUIRED_FIELDS])
Complete(record) ==
    \A i \in DOMAIN REQUIRED_FIELDS :
        Truthy(Get(record.items, REQUIRED_FIELDS[i], Str(<<>>)))

is_reject(record, G, clock) ==
    IF ~Complete(record) THEN Bool(TRUE)
    ELSE LET rv == requires_visa(record, G)
             vv == is_valid_visa(record, clock)
         IN  IF IsErr(rv) THEN rv
             ELSE IF ~Truthy(rv) THEN Bool(FALSE)
             ELSE IF IsErr(vv) THEN vv
             ELSE Bool(~Truthy(vv))

\* " ".join([a, b])
JoinName(a, b) == a \o <<" ">> \o b

is_secondary(record, G) ==
    IF ~HasKey(record.items, K_passport) THEN Err("KeyError")
    ELSE IF Lookup(record.items, K_passport).t # "str" THEN Err("AttributeError")
    ELSE IF ~HasKey(record.items, K_first_name) THEN Err("KeyError")
    ELSE IF ~HasKey(record.items, K_last_name) THEN Err("KeyError")
    ELSE LET passport == lower(Lookup(record.items, K_passport).s)
             first == Lookup(record.items, K_first_name)
             last == Lookup(record.items, K_last_name)
         IN  IF first.t # "str" \/ last.t # "str" THEN Err("TypeError")
             ELSE IF G.WATCH_PASSPORTS.t # "set" \/ G.WATCH_NAMES.t # "set"
                  THEN Err("TypeError")
             ELSE Bool(\/ passport \in G.WATCH_PASSPORTS.elems
                       \/ lower(JoinName(first.s, last.s)) \in G.WATCH_NAMES.elems)

-----------------------------------------------------------------------------
(* The inputs the model draws from                                         *)

MaxBatch == 2
MaxCalls == 2

Group(c) == <<c, c, c, c, c>>
PassportOf(c) ==
    Group(c) \o <<"-">> \o Group(c) \o <<"-">> \o Group(c) \o <<"-">>
             \o Group(c) \o <<"-">> \o Group(c)
VisaCode == Group("v") \o <<"-">> \o Group("7")

Country(code) == Dict(<< <<K_country, Str(code)>> >>)
Visa(date) == Dict(<< <<K_code, Str(VisaCode)>>, <<K_date, Str(date)>> >>)
With(d, k, v) == Dict(Put(d.items, k, v))
Without(d, k) == Dict(SelectSeq(d.items, LAMBDA it : it[1] # k))

\* a complete record of a returning citizen
Returning ==
    Dict(<< <<K_passport, Str(PassportOf("b"))>>,
            <<K_first_name, Str(<<"X">>)>>,
            <<K_last_name, Str(<<"Y">>)>>,
            <<K_birth_date, Str(<<"1","9","9","0","-","0","1","-","0","1">>)>>,
            <<K_home, Country(<<"K","A","N">>)>>,
            <<K_entry_reason, Str(<<"r","e","t","u","r","n","i","n","g">>)>>,
            <<K_from, Country(<<"B","R","D">>)>> >>)

Visitor == With(With(Returning, K_home, Country(<<"B","R","D">>)),
                K_entry_reason, Str(<<"V","i","s","i","t">>))

Record ==
    ("returning" :> Returning) @@
      \* home country absent from the table
      ("unknown_home" :>
        With(Returning, K_home, Country(<<"X","Y","Z">>))) @@
      \* an empty required field
      ("from_empty" :>
        With(Returning, K_from, Str(<<>>))) @@
      \* home without a country field
      ("home_no_country" :>
        With(Returning, K_home, Dict(<< <<<<"c","i","t","y">>, Str(<<"q">>)>> >>))) @@
      \* from a country under advisory, via without nested structure
      ("advisory_via_str" :>
        With(With(Returning, K_from, Country(<<"L","U","G">>)), K_via, Str(<<"q">>))) @@
      \* from a country under advisory, nothing else filled in
      ("advisory_only" :>
        Dict(<< << <<"F","r","o","m">>, Country(<<"L","U","G">>)>> >>)) @@
      \* a passport that is not five groups of five
      ("bad_passport" :>
        With(Returning, K_passport, Str(<<"a","b","c">>))) @@
      \* on the watchlist by passport, in another letter case
      ("watched" :>
        With(Returning, K_passport, Str(PassportOf("a")))) @@
      \* birth_date missing and on the watchlist
      ("watched_no_birth_date" :>
        Without(With(Returning, K_passport, Str(PassportOf("a"))), K_birth_date)) @@
      \* shares only the first name with a watchlist entry
      ("first_name_only" :>
        With(Returning, K_first_name, Str(<<"a">>))) @@
      \* "a b" + "c" against the entry "a" + "b c"
      ("joined_name" :>
        With(With(Returning, K_first_name, Str(<<"a"," ","b">>)),
             K_last_name, Str(<<"c">>))) @@
      \* a visit that needs a visa, without one
      ("visit_no_visa" :>
        Visitor) @@
      \* a visit with a visa dated 2022-02-28
      ("visa_0228" :>
        With(Visitor, K_visa, Visa(<<"2","0","2","2","-","0","2","-","2","8">>))) @@
      \* a visit with a visa dated 2022-02-27
      ("visa_0227" :>
        With(Visitor, K_visa, Visa(<<"2","0","2","2","-","0","2","-","2","7">>))) @@
      \* from country absent from the table
      ("unknown_from" :>
        With(Returning, K_from, Country(<<"X","Y","Z">>))) @@
      \* via a country under advisory
      ("via_advisory" :>
        With(Returning, K_via, Country(<<"l","u","g">>))) @@
      \* birth_date missing
      ("no_birth_date" :>
        Without(Returning, K_birth_date))

RecordNames == DOMAIN Record

Entry(passport, first, last) ==
    Dict(<< <<K_passport, Str(passport)>>, <<K_first_name, Str(first)>>,
            <<K_last_name, Str(last)>> >>)

Watchlist == Array(<< Entry(PassportOf("A"), <<"A">>, <<"B"," ","C">>) >>)
OtherWatchlist == Array(<< Entry(PassportOf("c"), <<"X">>, <<"Y">>) >>)
\* an entry without a passport
BadWatchlist ==
    Array(<< Without(Entry(PassportOf("A"), <<"A">>, <<"B">>), K_passport) >>)

CountryEntry(visitor, transit, advisory) ==
    Dict(<< <<K_visitor_visa_required, visitor>>,
            <<K_transit_visa_required, transit>>,
            <<K_medical_advisory, Str(advisory)>> >>)

\* the flags as the strings "0" and "1"
CountriesStr ==
    Dict(<< << <<"K","A","N">>, CountryEntry(Str(<<"0">>), Str(<<"0">>), <<>>)>>,
            << <<"L","U","G">>,
               CountryEntry(Str(<<"1">>), Str(<<"1">>), <<"M","U","M","P","S">>)>>,
            << <<"B","R","D">>, CountryEntry(Str(<<"1">>), Str(<<"0">>), <<>>)>> >>)

\* the flags as JSON booleans
CountriesBool ==
    Dict(<< << <<"K","A","N">>, CountryEntry(JBool(FALSE), JBool(FALSE), <<>>)>>,
            << <<"L","U","G">>,
               CountryEntry(JBool(TRUE), JBool(TRUE), <<"M","U","M","P","S">>)>>,
            << <<"B","R","D">>, CountryEntry(JBool(TRUE), JBool(FALSE), <<>>)>> >>)

\* the files on disk, by path
Files ==
    ("watchlist.json" :> Watchlist) @@
    ("other_watchlist.json" :> OtherWatchlist) @@
    ("bad_watchlist.json" :> BadWatchlist) @@
    ("countries.json" :> CountriesStr) @@
    ("countries_bool.json" :> CountriesBool)

WatchlistPaths == {"watchlist.json", "other_watchlist.json", "bad_watchlist.json", ""}
CountriesPaths == {"countries.json", "countries_bool.json"}

\* with open(path) as f: json.load(f)
json_load(path) == IF path \in DOMAIN Files THEN Files[path] ELSE Missing

\* the records source holds the records named by input_file
load_records(names) == Array([i \in DOMAIN names |-> Record[names[i]]])

\* datetime.datetime.now(): midnight and noon of 2024-02-28, noon of 2024-02-29,
\* midnight of 2024-03-01
Clock ==
    << [t |-> "datetime", y |-> 2024, m |-> 2, d |-> 28, s |-> 0],
       [t |-> "datetime", y |-> 2024, m |-> 2, d |-> 28, s |-> 43200],
       [t |-> "datetime", y |-> 2024, m |-> 2, d |-> 29, s |-> 43200],
       [t |-> "datetime", y |-> 2024, m |-> 3, d |-> 1, s |-> 0] >>

-----------------------------------------------------------------------------
(* set_global_vars, papers.py:110-133.  Returns the globals as the call    *)
(* leaves them and the exception it raised, if any.                        *)

\* set([x["passport"] for x in watchlist])
PassportSet(watchlist) ==
    IF \E i \in DOMAIN watchlist : ~HasKey(watchlist[i].items, K_passport)
    THEN Err("KeyError")
    ELSE IF \E i \in DOMAIN watchlist :
                Lookup(watchlist[i].items, K_passport).t # "str"
    THEN Err("TypeError")
    ELSE SetOf({Lookup(watchlist[i].items, K_passport).s : i \in DOMAIN watchlist})

\* set([" ".join([x["first_name"], x["last_name"]]) for x in watchlist])
NameSet(watchlist) ==
    IF \E i \in DOMAIN watchlist :
           \/ ~HasKey(watchlist[i].items, K_first_name)
           \/ ~HasKey(watchlist[i].items, K_last_name)
    THEN Err("KeyError")
    ELSE IF \E i \in DOMAIN watchlist :
                \/ Lookup(watchlist[i].items, K_first_name).t # "str"
                \/ Lookup(watchlist[i].items, K_last_name).t # "str"
    THEN Err("TypeError")
    ELSE SetOf({JoinName(Lookup(watchlist[i].items, K_first_name).s,
                         Lookup(watchlist[i].items, K_last_name).s) :
                i \in DOMAIN watchlist})

\* set_global_vars as it would be if it loaded the tables only while they are
\* unset
set_global_vars_once(watchlist_path, countries_path, G) ==
    IF G.COUNTRIES.t # "none" THEN [G |-> G, err |-> None]
    ELSE IF json_load(watchlist_path).t = "missing"
            \/ json_load(countries_path).t = "missing"
    THEN [G |-> G, err |-> Err("FileNotFoundError")]
    ELSE LET countries == convert_to_lower(json_load(countries_path))
             wl_file == json_load(watchlist_path)
             watchlist == [i \in DOMAIN wl_file.elems |->
                              convert_to_lower(wl_file.elems[i])]
             passports == PassportSet(watchlist)
             names == NameSet(watchlist)
         IN  IF IsErr(passports)
             THEN [G |-> [G EXCEPT !.COUNTRIES = countries], err |-> passports]
             ELSE IF IsErr(names)
             THEN [G |-> [G EXCEPT !.COUNTRIES = countries,
                                   !.WATCH_PASSPORTS = passports],
                   err |-> names]
             ELSE [G |-> [COUNTRIES |-> countries, WATCH_PASSPORTS |-> passports,
                          WATCH_NAMES |-> names],
                   err |-> None]

set_global_vars(watchlist_path, countries_path, G) ==
    IF json_load(watchlist_path).t = "missing"
       \/ json_load(countries_path).t = "missing"
    THEN [G |-> G, err |-> Err("FileNotFoundError")]
    ELSE LET countries == convert_to_lower(json_load(countries_path))
             wl_file == json_load(watchlist_path)
             watchlist == [i \in DOMAIN wl_file.elems |->
                              convert_to_lower(wl_file.elems[i])]
             passports == PassportSet(watchlist)
             names == NameSet(watchlist)
         IN  IF IsErr(passports)
             THEN [G |-> [G EXCEPT !.COUNTRIES = countries], err |-> passports]
             ELSE IF IsErr(names)
             THEN [G |-> [G EXCEPT !.COUNTRIES = countries,
                                   !.WATCH_PASSPORTS = passports],
                   err |-> names]
             ELSE [G |-> [COUNTRIES |-> countries, WATCH_PASSPORTS |-> passports,
                          WATCH_NAMES |-> names],
                   err |-> None]

-----------------------------------------------------------------------------
(* decide, papers.py:45-87                                                 *)

\* the for ... else over ["Quarantine", "Reject", "Secondary"]
Label(r, G, clock) ==
    LET q == is_quarantine(r, G)
        j == is_reject(r, G, clock)
        s == is_secondary(r, G)
    IN  IF IsErr(q) THEN q
        ELSE IF Truthy(q) THEN LabelOf("Quarantine")
        ELSE IF IsErr(j) THEN j
        ELSE IF Truthy(j) THEN LabelOf("Reject")
        ELSE IF IsErr(s) THEN s
        ELSE IF Truthy(s) THEN LabelOf("Secondary")
        ELSE LabelOf("Accept")

RECURSIVE Results(_, _, _, _)
Results(records, G, clock, results) ==
    IF records = <<>> THEN List(results)
    ELSE LET d == Label(Head(records), G, clock)
         IN  IF IsErr(d) THEN d
             ELSE Results(Tail(records), G, clock, Append(results, d.l))

decide(names, watchlist_path, countries_path, G, clock) ==
    LET in_file == load_records(names)
        records == [i \in DOMAIN in_file.elems |->
                       convert_to_lower(in_file.elems[i])]
        loaded == set_global_vars(watchlist_path, countries_path, G)
    IN  IF IsErr(loaded.err) THEN [G |-> loaded.G, out |-> loaded.err]
        ELSE [G |-> loaded.G, out |-> Results(records, loaded.G, clock, <<>>)]

-----------------------------------------------------------------------------
(* The state machine                                                       *)

Globals == [COUNTRIES |-> COUNTRIES, WATCH_PASSPORTS |-> WATCH_PASSPORTS,
            WATCH_NAMES |-> WATCH_NAMES]

Init ==
    /\ input_file = <<>>
    /\ watchlist_file \in WatchlistPaths
    /\ countries_file \in CountriesPaths
    /\ now = 1
    /\ COUNTRIES = None
    /\ WATCH_PASSPORTS = None
    /\ WATCH_NAMES = None
    /\ result = None
    /\ called_at = 0
    /\ calls = 0

\* the caller appends a record to the records source
AddRecordFrom(names) ==
    /\ calls < MaxCalls
    /\ Len(input_file) < MaxBatch
    /\ \E r \in names : input_file' = Append(input_file, r)
    /\ result' = None
    /\ called_at' = 0
    /\ UNCHANGED <<watchlist_file, countries_file, now, COUNTRIES,
                   WATCH_PASSPORTS, WATCH_NAMES, calls>>

\* the caller starts a new records source
ClearRecords ==
    /\ calls < MaxCalls
    /\ input_file # <<>>
    /\ input_file' = <<>>
    /\ result' = None
    /\ called_at' = 0
    /\ UNCHANGED <<watchlist_file, countries_file, now, COUNTRIES,
                   WATCH_PASSPORTS, WATCH_NAMES, calls>>

\* the caller points decide at another watchlist, or at a path that is not there
WriteWatchlist ==
    /\ calls < MaxCalls
    /\ \E w \in WatchlistPaths : w # watchlist_file /\ watchlist_file' = w
    /\ result' = None
    /\ called_at' = 0
    /\ UNCHANGED <<input_file, countries_file, now, COUNTRIES,
                   WATCH_PASSPORTS, WATCH_NAMES, calls>>

WriteCountries ==
    /\ calls < MaxCalls
    /\ \E c \in CountriesPaths : c # countries_file /\ countries_file' = c
    /\ result' = None
    /\ called_at' = 0
    /\ UNCHANGED <<input_file, watchlist_file, now, COUNTRIES,
                   WATCH_PASSPORTS, WATCH_NAMES, calls>>

Tick ==
    /\ \E later \in (now + 1)..Len(Clock) : now' = later
    /\ UNCHANGED <<input_file, watchlist_file, countries_file, COUNTRIES,
                   WATCH_PASSPORTS, WATCH_NAMES, result, called_at, calls>>

Decide ==
    /\ calls < MaxCalls
    /\ \E r \in {decide(input_file, watchlist_file, countries_file,
                       Globals, Clock[now])} :
           /\ COUNTRIES' = r.G.COUNTRIES
           /\ WATCH_PASSPORTS' = r.G.WATCH_PASSPORTS
           /\ WATCH_NAMES' = r.G.WATCH_NAMES
           /\ result' = r.out
    /\ called_at' = now
    /\ calls' = calls + 1
    /\ UNCHANGED <<input_file, watchlist_file, countries_file, now>>

AddRecord == AddRecordFrom(RecordNames)

Next ==
    \/ AddRecord
    \/ ClearRecords
    \/ WriteWatchlist
    \/ WriteCountries
    \/ Tick
    \/ Decide

Spec == Init /\ [][Next]_vars

\* The same machine over the records whose label depends on the watchlist,
\* the country table or the clock: the runs of several calls.
CallRecordNames == {"returning", "watched", "visa_0228", "unknown_home"}

AddCallRecord == AddRecordFrom(CallRecordNames)

NextCalls ==
    \/ AddCallRecord
    \/ ClearRecords
    \/ WriteWatchlist
    \/ WriteCountries
    \/ Tick
    \/ Decide

SpecCalls == Init /\ [][NextCalls]_vars

-----------------------------------------------------------------------------
(* Reading a state after a call                                            *)

NoGlobals == [COUNTRIES |-> None, WATCH_PASSPORTS |-> None, WATCH_NAMES |-> None]

\* decide has been called on the inputs as they stand
Called == result # None

\* ... and its reference data loaded without an exception
Loaded ==
    /\ Called
    /\ ~IsErr(set_global_vars(watchlist_file, countries_file, NoGlobals).err)

\* the lowercased records of the call, its clock reading, its labels
Batch == [i \in DOMAIN input_file |-> convert_to_lower(Record[input_file[i]])]
At == Clock[called_at]
Labelled(i, l) == result.t = "list" /\ result.labels[i] = l

\* what the claims say of a record and of the tables, read off the inputs:
\* r.k.country, the empty string when absent
CountryCode(r, k) ==
    LET o == Get(r.items, k, Dict(<<>>))
        c == IF o.t = "dict" THEN Get(o.items, K_country, Str(<<>>)) ELSE Str(<<>>)
    IN  IF c.t = "str" THEN c.s ELSE <<>>

\* the country table of the call, as written in its source
RawTable == json_load(countries_file).items
KnownCode(code) == \E j \in DOMAIN RawTable : lower(RawTable[j][1]) = code
TableEntry(code) ==
    IF KnownCode(code)
    THEN RawTable[CHOOSE j \in DOMAIN RawTable : lower(RawTable[j][1]) = code][2]
    ELSE Dict(<<>>)
AdvisoryText(code) ==
    LET a == Get(TableEntry(code).items, K_medical_advisory, Str(<<>>))
    IN  IF a.t = "str" THEN a.s ELSE <<>>
FlagSet(code, flag) ==
    LET v == Get(TableEntry(code).items, flag, JBool(FALSE))
    IN  CASE v.t = "jbool" -> v.b
          [] v.t = "str" -> v.s # <<>> /\ AllDigits(v.s) /\ DigitsVal(v.s) # 0
          [] OTHER -> FALSE

\* missing or empty
Blank(r, k) == ~HasKey(r.items, k) \/ Lookup(r.items, k) = Str(<<>>)

ClaimedRequiresVisa(r) ==
    LET home == CountryCode(r, K_home)
        reason == Get(r.items, K_entry_reason, Str(<<>>))
    IN  IF home = S_kan THEN FALSE
        ELSE \/ reason = Str(S_visit) /\ FlagSet(home, K_visitor_visa_required)
             \/ reason = Str(S_transit) /\ FlagSet(home, K_transit_visa_required)

\* some single watchlist entry has the passport, or both names, of the record,
\* letter case ignored
SameText(a, b) == a.t = "str" /\ b.t = "str" /\ lower(a.s) = lower(b.s)
OnWatchlist(r) ==
    LET wl == json_load(watchlist_file).elems
    IN  \E j \in DOMAIN wl :
            LET e == convert_to_lower(wl[j])
            IN  \/ SameText(Get(r.items, K_passport, None),
                            Get(e.items, K_passport, None))
                \/ /\ SameText(Get(r.items, K_first_name, None),
                               Get(e.items, K_first_name, None))
                   /\ SameText(Get(r.items, K_last_name, None),
                               Get(e.items, K_last_name, None))

\* the first of the three rules whose predicate holds
FirstMatch(r, G, clock) ==
    IF is_quarantine(r, G) = Bool(TRUE) THEN "Quarantine"
    ELSE IF is_reject(r, G, clock) = Bool(TRUE) THEN "Reject"
    ELSE IF is_secondary(r, G) = Bool(TRUE) THEN "Secondary"
    ELSE "Accept"

-----------------------------------------------------------------------------
(* The claims                                                              *)

\* C1: for every batch decide returns one label per record, in input order, the
\* i-th being the first of Quarantine, Reject, Secondary whose predicate holds
\* for the i-th lowercased record, Accept when none holds.
C1_OneLabelPerRecordInPriorityOrder ==
    Loaded =>
        /\ result.t = "list"
        /\ Len(result.labels) = Len(input_file)
        /\ \A i \in DOMAIN input_file :
               result.labels[i] = FirstMatch(Batch[i], Globals, At)

\* C2: is_quarantine(record) is true iff the from or the via country (the empty
\* string when absent) has a non-empty medical advisory, and a record whose
\* from country has one is labelled Quarantine whatever else it holds.
C2_QuarantineIffAdvisory ==
    Loaded =>
        \A i \in DOMAIN input_file :
            LET r == Batch[i]
                from_adv == AdvisoryText(CountryCode(r, K_from)) # <<>>
                via_adv == AdvisoryText(CountryCode(r, K_via)) # <<>>
            IN  /\ is_quarantine(r, Globals) = Bool(from_adv \/ via_adv)
                /\ from_adv => Labelled(i, "Quarantine")

\* C3: a record with a required top-level field missing or empty makes is_reject
\* true and is labelled Reject unless quarantined; a field that is present and
\* not empty counts as present whatever it lacks inside.
C3_IncompleteIsRejected ==
    Loaded =>
        \A i \in DOMAIN input_file :
            LET r == Batch[i]
                blank == \E f \in Range(REQUIRED_FIELDS) : Blank(r, f)
            IN  /\ blank =>
                      /\ is_reject(r, Globals, At) = Bool(TRUE)
                      /\ is_quarantine(r, Globals) # Bool(TRUE)
                             => Labelled(i, "Reject")
                /\ ~blank => Complete(r)

\* C4: for a record with all required fields, is_reject is true exactly when
\* requires_visa holds and is_valid_visa does not, requires_visa being false for
\* home "kan", true for a visit (transit) whose home country has the visitor
\* (transit) flag set, false otherwise; a visit that needs a visa and has no
\* visa object is labelled Reject.
C4_RejectIffVisaNeededAndInvalid ==
    Loaded =>
        \A i \in DOMAIN input_file :
            LET r == Batch[i]
                needed == ClaimedRequiresVisa(r)
            IN  Complete(r) =>
                    /\ requires_visa(r, Globals) = Bool(needed)
                    /\ is_reject(r, Globals, At)
                           = Bool(needed /\ is_valid_visa(r, At) # Bool(TRUE))
                    /\ ( /\ needed
                         /\ ~HasKey(r.items, K_visa)
                         /\ is_quarantine(r, Globals) # Bool(TRUE) )
                           => Labelled(i, "Reject")

\* C5: a record neither quarantined nor rejected is labelled Secondary iff,
\* letter case ignored, its passport is that of some watchlist entry or some
\* single entry has both its first and its last name.
C5_SecondaryIffOnWatchlist ==
    Loaded =>
        \A i \in DOMAIN input_file :
            LET r == Batch[i]
            IN  ( /\ is_quarantine(r, Globals) = Bool(FALSE)
                  /\ is_reject(r, Globals, At) = Bool(FALSE) )
                    => (Labelled(i, "Secondary") <=> OnWatchlist(r))

\* C6: a record whose passport is not five groups of five word characters is
\* labelled Reject, unless it is quarantined.
C6_BadPassportIsRejected ==
    Loaded =>
        \A i \in DOMAIN input_file :
            LET r == Batch[i]
            IN  ( /\ valid_passport_format(Get(r.items, K_passport, Str(<<>>)))
                         # Bool(TRUE)
                  /\ is_quarantine(r, Globals) # Bool(TRUE) )
                    => Labelled(i, "Reject")

\* C7: for a record whose home, from or via country code is not in the country
\* table every rule predicate completes, the country counts as having no
\* advisory and no visa requirement, and decide labels the record.
C7_UnknownCountryTolerated ==
    Loaded =>
        \A i \in DOMAIN input_file :
            LET r == Batch[i]
                unknown(k) == CountryCode(r, k) # <<>> /\ ~KnownCode(CountryCode(r, k))
            IN  (unknown(K_home) \/ unknown(K_from) \/ unknown(K_via)) =>
                    /\ ~IsErr(is_quarantine(r, Globals))
                    /\ ~IsErr(is_reject(r, Globals, At))
                    /\ ~IsErr(is_secondary(r, Globals))
                    /\ unknown(K_home) => requires_visa(r, Globals) = Bool(FALSE)
                    /\ (unknown(K_from) /\ AdvisoryText(CountryCode(r, K_via)) = <<>>)
                           => is_quarantine(r, Globals) = Bool(FALSE)
                    /\ result.t = "list"

\* C8: a missing optional or nested part (no via, no visa, a home or from value
\* without a country field or without nested structure) is read as absent, the
\* empty string or an invalid visa, and never makes the rule predicate that
\* reads it raise: is_quarantine reads from and via on every record,
\* requires_visa reads home on every complete record, is_valid_visa reads visa.
C8_MissingPartsNeverRaise ==
    Loaded =>
        \A i \in DOMAIN input_file :
            LET r == Batch[i]
                nested(k) == /\ HasKey(r.items, k)
                             /\ Lookup(r.items, k).t = "dict"
                             /\ HasKey(Lookup(r.items, k).items, K_country)
            IN  /\ (~nested(K_from) \/ ~nested(K_via))
                       => ~IsErr(is_quarantine(r, Globals))
                /\ (Complete(r) /\ ~nested(K_home))
                       => ~IsErr(requires_visa(r, Globals))
                /\ ~HasKey(r.items, K_visa) => is_valid_visa(r, At) = Bool(FALSE)

\* C9: for a visa with a well-formed code and date, is_valid_visa is true iff
\* the visa date is not before the evaluation date two calendar years back, at
\* any time of day, and the subtraction is defined for every evaluation date.
C9_VisaValidForTwoCalendarYears ==
    Called =>
        \A i \in DOMAIN input_file :
            LET r == Batch[i]
                visa == Get(r.items, K_visa, Dict(<<>>))
                code == IF visa.t = "dict" THEN Get(visa.items, K_code, Str(<<>>))
                        ELSE Str(<<>>)
                date == IF visa.t = "dict" THEN Get(visa.items, K_date, Str(<<>>))
                        ELSE Str(<<>>)
                well_formed == /\ valid_visa_format(code) = Bool(TRUE)
                               /\ valid_date_format(date) = Bool(TRUE)
                day == [At EXCEPT !.s = 0]
            IN  well_formed =>
                    /\ ~IsErr(is_valid_visa(r, At))
                    /\ ~IsErr(ReplaceYear(day, day.y - 2)) =>
                           is_valid_visa(r, At)
                               = Bool(NotBefore(strptime(date.s),
                                                ReplaceYear(day, day.y - 2)))

\* C10, as stated: two calls with equal inputs return equal results, whatever
\* came before and whenever they run.  (While result is kept, the inputs are
\* those of the call that produced it.)
C10_EqualInputsEqualResults ==
    [][(calls' # calls /\ Called) => result' = result]_vars

\* C10, amended: the outcome of every call (its labels or the exception) is that
\* of a call in a fresh process on the same records, watchlist, country table
\* and clock reading; the tables a call that loaded them leaves are the index of
\* its own watchlist and country inputs; the call leaves its inputs as they
\* were.
C10_CallDeterminedByInputsAndClock ==
    [][calls' # calls =>
          /\ result' = decide(input_file, watchlist_file, countries_file,
                              NoGlobals, Clock[now]).out
          /\ ~IsErr(set_global_vars(watchlist_file, countries_file, NoGlobals).err)
                 => Globals' = set_global_vars(watchlist_file, countries_file,
                                               NoGlobals).G
          /\ UNCHANGED <<input_file, watchlist_file, countries_file>>]_vars

\* a later call has returned labels, one of them Secondary, after the process
\* had already run a call
C10_SecondCallReturned ==
    /\ calls >= 2
    /\ result.t = "list"
    /\ \E i \in DOMAIN result.labels : result.labels[i] = "Secondary"

====
